---- MODULE Spec2Model ----
(***************************************************************************)
(* Model of the shaper pip wrapper: the installer (shaper_pkg/install.py)  *)
(* and the launcher (shaper_pkg/cli.py) acting on the files of the bin     *)
(* directory: the binary "shaper", the temporary download ".shaper.tmp",   *)
(* the version marker "VERSION" and the manifest "SHA256SUMS".             *)
(*                                                                         *)
(* Files are inodes reached through directory entries, so that a rename,   *)
(* an unlink and a write through an already open descriptor behave as on a *)
(* POSIX filesystem.  A file body is a sequence of chunks; a text file is  *)
(* a sequence of tokens (a version string, a newline).                     *)
(*                                                                         *)
(* Environment assumptions: unlink of an existing file succeeds; every     *)
(* other filesystem or network step may fail.  print() does not fail.      *)
(***************************************************************************)
EXTENDS Integers, Sequences, FiniteSets, TLC

\* ---------------------------------------------------------------- bounds
\* number of chunks of a complete release asset
MaxChunks == 2
\* number of arguments given to the launcher on its command line
MaxArgs == 1

\* ------------------------------------------------------------- constants
Procs == {1, 2}
\* the process slot used when runs happen one at a time
Main == CHOOSE p \in Procs : \A q \in Procs : p <= q
Inodes == 1..(2 + Cardinality(Procs))
Versions == {"1.4.0", "1.5.0"}
NL == "\n"
Whitespace == {NL, " "}
BINARY_PATH == "bin/shaper"
\* download_file: the content-length ceiling
Ceiling == 200 * 1024 * 1024

PLATFORM_MAP_keys ==
  { <<"linux", "x86_64">>, <<"linux", "aarch64">>, <<"linux", "arm64">>,
    <<"darwin", "x86_64">>, <<"darwin", "arm64">> }

PLATFORM_MAP(key) ==
  CASE key = <<"linux", "x86_64">>  -> "shaper-linux-amd64"
    [] key = <<"linux", "aarch64">> -> "shaper-linux-arm64"
    [] key = <<"linux", "arm64">>   -> "shaper-linux-arm64"
    [] key = <<"darwin", "x86_64">> -> "shaper-darwin-amd64"
    [] key = <<"darwin", "arm64">>  -> "shaper-darwin-arm64"
    [] OTHER -> ""

\* mutant: an unknown pair falls back to the linux amd64 asset
PlatformGet_Fallback(key) ==
  IF key \in PLATFORM_MAP_keys THEN PLATFORM_MAP(key) ELSE "shaper-linux-amd64"

\* PLATFORM_MAP.get(key): "" stands for None
PlatformGet(key) == IF key \in PLATFORM_MAP_keys THEN PLATFORM_MAP(key) ELSE ""

\* mutant: amd64 is not recognised as x86_64
NormalizeMachine_NoAmd64(system, machine) ==
  IF machine \in {"arm64", "aarch64"}
  THEN (IF system = "linux" THEN "aarch64" ELSE "arm64")
  ELSE machine

\* install.main, lines 136-140
NormalizeMachine(system, machine) ==
  IF machine = "amd64" THEN "x86_64"
  ELSE IF machine \in {"arm64", "aarch64"}
       THEN (IF system = "linux" THEN "aarch64" ELSE "arm64")
       ELSE machine

\* install.main, lines 142-150: the asset name, or "" when there is none
ResolveAsset(system, machine0) ==
  LET machine == NormalizeMachine(system, machine0)
      first == PlatformGet(<<system, machine>>)
  IN IF first # "" THEN first
     ELSE IF system = "linux" /\ machine = "arm64"
          THEN PlatformGet(<<"linux", "aarch64">>)
          ELSE IF system = "darwin" /\ machine = "aarch64"
               THEN PlatformGet(<<"darwin", "arm64">>)
               ELSE ""

\* ------------------------------------------------------------ file bodies
ZeroChunk == <<"zero", 0>>
\* the release asset published for version v
GoodBody(v) == [i \in 1..MaxChunks |-> <<v, i>>]
\* the same asset with its last chunk altered
CorruptBody(v) == [i \in 1..MaxChunks |-> IF i = MaxChunks THEN <<"bad", i>> ELSE <<v, i>>]
\* a response that ends early without a transport error
ShortBody(v) == SubSeq(GoodBody(v), 1, MaxChunks - 1)
Bodies(v) == {GoodBody(v), CorruptBody(v), ShortBody(v)}

\* hashlib.sha256(...).hexdigest(): an injective function of the content,
\* printed in lower-case hex
sha256hex(data) == [case |-> "lower", of |-> data]
\* the same digest printed in upper-case hex (a different string)
UpperHex(d) == [case |-> "upper", of |-> d.of]
NoSum == [case |-> "none", of |-> <<>>]

\* ---------------------------------------------------------------- manifest
AssetNames == {"shaper-linux-amd64", "shaper-linux-arm64",
               "shaper-darwin-amd64", "shaper-darwin-arm64"}
AssetOrder == <<"shaper-linux-amd64", "shaper-linux-arm64",
                "shaper-darwin-amd64", "shaper-darwin-arm64">>

\* SHA256SUMS as the release process writes it for version v: one line
\* "<hex> <filename>" per asset; every asset of a version has the same body
\* in this model, the platform decides only the name
FullManifest(v) == [i \in 1..Len(AssetOrder) |-> <<sha256hex(GoodBody(v)), AssetOrder[i]>>]
\* a manifest with a blank line, a one-token line and no usable entry
EmptyManifest(v) == << <<>>, <<sha256hex(GoodBody(v))>> >>
\* the digests written in upper-case hex
UpperManifest(v) == [i \in 1..Len(AssetOrder) |-> <<UpperHex(sha256hex(GoodBody(v))), AssetOrder[i]>>]
NoManifest == [exists |-> FALSE, lines |-> <<>>]
ManifestFiles(v) ==
  { NoManifest,
    [exists |-> TRUE, lines |-> FullManifest(v)],
    [exists |-> TRUE, lines |-> EmptyManifest(v)],
    [exists |-> TRUE, lines |-> UpperManifest(v)] }

\* load_checksums, lines 108-119: the dict as a function of the asset names,
\* NoSum where the dict has no key; a later line overrides an earlier one
RECURSIVE ParseLines(_, _)
ParseLines(lines, acc) ==
  IF lines = <<>> THEN acc
  ELSE LET parts == Head(lines)
       IN ParseLines(Tail(lines),
            IF Len(parts) >= 2
            THEN [a \in AssetNames |-> IF a = parts[2] THEN parts[1] ELSE acc[a]]
            ELSE acc)

load_checksums(mf) == ParseLines(mf.lines, [a \in AssetNames |-> NoSum])

\* ------------------------------------------------------------------- text
RECURSIVE lstrip(_)
lstrip(t) == IF t # <<>> /\ Head(t) \in Whitespace THEN lstrip(Tail(t)) ELSE t
RECURSIVE rstrip(_)
rstrip(t) ==
  IF t # <<>> /\ t[Len(t)] \in Whitespace THEN rstrip(SubSeq(t, 1, Len(t) - 1)) ELSE t
\* str.strip()
strip(t) == rstrip(lstrip(t))
\* mutant: the release tag is recorded instead of the version
MarkerText_Tag(v) == <<"v", v, NL>>

\* f"{version}\n"
MarkerText(v) == <<v, NL>>

ArgSet == {"serve", "--help"}
ArgLists == UNION {[1..n -> ArgSet] : n \in 0..MaxArgs}

\* ------------------------------------------------------------------ state
VARIABLES
  pkgVersion,   \* get_version(): the version of the installed wrapper package
  platform,     \* <<platform.system().lower(), platform.machine().lower()>>
  manifest,     \* bin/SHA256SUMS
  binDir,       \* whether the bin directory exists
  path,         \* directory entries "bin" (bin/shaper) and "tmp" (bin/.shaper.tmp): an inode or 0
  inode,        \* inode -> [data, exec]
  marker,       \* bin/VERSION
  written,      \* history: the content that passed verification in the run that created bin/VERSION
  proc          \* the processes: installer and launcher invocations

vars == <<pkgVersion, platform, manifest, binDir, path, inode, marker, written, proc>>

Names == {"bin", "tmp"}
FreeInode == [data |-> <<>>, exec |-> FALSE]
NoFd == [ino |-> 0, off |-> 0]
NoMarker == [exists |-> FALSE, text |-> <<>>]
NoFile == [exists |-> FALSE, ino |-> 0, data |-> <<>>, exec |-> FALSE]
None == [some |-> FALSE, text |-> <<>>]
Some(t) == [some |-> TRUE, text |-> t]
NoSnap == [bin |-> NoFile, tmp |-> NoFile, marker |-> NoMarker, dir |-> FALSE]

Terminal == {"idle", "exited", "execd", "killed"}

IdleProc ==
  [ pc |-> "idle", prev |-> "idle", kind |-> "none", args |-> <<>>, desired |-> "", current |-> None,
    usable |-> FALSE, asset |-> "", expected |-> NoSum, version |-> "", body |-> <<>>,
    wfd |-> NoFd, rfd |-> NoFd, hashed |-> <<>>, verified |-> <<>>,
    failStep |-> "", exc |-> "", exit |-> -1, diag |-> <<>>, execArgv |-> <<>>,
    net |-> 0, installs |-> 0, downloads |-> 0, verifies |-> 0, installed |-> FALSE,
    oversize |-> FALSE, execFailed |-> FALSE, killedAt |-> "", snap |-> NoSnap ]

\* the file a directory entry names, as an observer sees it
FileOf(pathN, inodeN, n) ==
  IF pathN[n] = 0 THEN NoFile
  ELSE [exists |-> TRUE, ino |-> pathN[n], data |-> inodeN[pathN[n]].data,
        exec |-> inodeN[pathN[n]].exec]
FileAt(n) == FileOf(path, inode, n)

Referenced(pathN, procN, i) ==
  \/ \E n \in Names : pathN[n] = i
  \/ \E q \in Procs : procN[q].wfd.ino = i \/ procN[q].rfd.ino = i

\* an inode nobody names and nobody holds open is released
Sweep(pathN, inodeN, procN) ==
  [i \in Inodes |-> IF Referenced(pathN, procN, i) THEN inodeN[i] ELSE FreeInode]

FreeIno == CHOOSE i \in Inodes :
             /\ ~Referenced(path, proc, i)
             /\ \A j \in Inodes : ~Referenced(path, proc, j) => i <= j

\* a write of one chunk at offset off (counted in chunks); a write past the
\* end leaves a hole of zeros
WriteAt(data, off, chunk) ==
  [i \in 1..(IF off + 1 > Len(data) THEN off + 1 ELSE Len(data)) |->
     IF i = off + 1 THEN chunk
     ELSE IF i <= Len(data) THEN data[i] ELSE ZeroChunk]

\* a step of process p: its record becomes rec (prev keeps the program point
\* the step was taken from), the directory and the inodes become pathN, inodeN
Commit(p, rec, pathN, inodeN) ==
  LET procN == [proc EXCEPT ![p] = [rec EXCEPT !.prev = proc[p].pc]]
  IN /\ proc' = procN
     /\ path' = pathN
     /\ inode' = Sweep(pathN, inodeN, procN)

Only(p, rec) == /\ proc' = [proc EXCEPT ![p] = [rec EXCEPT !.prev = proc[p].pc]]
                /\ UNCHANGED <<path, inode>>

Goto(p, l) == [proc[p] EXCEPT !.pc = l]

\* an exception raised inside the try block of install.main: control goes to
\* the handler of line 194; the with-blocks close the open files
Raise(p, step) ==
  [proc[p] EXCEPT !.pc = "h_report", !.failStep = step, !.exc = "Exception",
                  !.wfd = NoFd, !.rfd = NoFd]

\* mutant: the handler returns instead of exiting
HandlerExit_Returns(r) ==
  IF r.kind = "launcher" THEN [r EXCEPT !.pc = "l_exec"]
  ELSE [r EXCEPT !.pc = "exited", !.exit = 0]

\* sys.exit(1) at the end of the handler (line 202): SystemExit leaves
\* install.main; it is not an Exception, so cli.main (line 43) does not
\* catch it and the interpreter exits with status 1
HandlerExit(r) == [r EXCEPT !.pc = "exited", !.exc = "SystemExit", !.exit = 1]

\* an exception that leaves install.main from inside the handler: the
\* launcher catches it (cli.py line 43), a bare installer dies with a traceback
Escape(r) ==
  IF r.kind = "launcher" THEN [r EXCEPT !.pc = "l_except", !.exc = "Exception"]
  ELSE [r EXCEPT !.pc = "exited", !.exc = "Exception", !.exit = 1,
                 !.diag = Append(@, "Traceback")]

Fresh(kind, args, first) ==
  [IdleProc EXCEPT !.pc = first, !.kind = kind, !.args = args,
     !.installs = IF kind = "installer" THEN 1 ELSE 0,
     !.snap = [bin |-> FileAt("bin"), tmp |-> FileAt("tmp"), marker |-> marker,
               dir |-> binDir]]

Quiet == \A q \in Procs : proc[q].pc \in Terminal

Env == <<pkgVersion, platform, manifest>>

\* ------------------------------------------------------------------- init
\* a supported platform named by a synonym and an unsupported one; every
\* other pair is covered by SpecResolve
Platforms == { <<"linux", "amd64">>, <<"freebsd", "x86_64">> }

Init ==
  /\ pkgVersion = "1.4.0"
  /\ platform \in Platforms
  /\ manifest \in ManifestFiles(pkgVersion)
  /\ binDir = TRUE
  /\ path = [n \in Names |-> 0]
  /\ inode = [i \in Inodes |-> FreeInode]
  /\ marker = NoMarker
  /\ written = <<>>
  /\ proc = [q \in Procs |-> IdleProc]

\* ------------------------------------------------ installer: install.main
\* line 126: BIN_DIR.mkdir(parents=True, exist_ok=True)
IMkdir(p) ==
  /\ proc[p].pc = "i_mkdir"
  /\ binDir' = TRUE
  /\ Only(p, Goto(p, "i_unmark"))
  /\ UNCHANGED <<Env, marker, written>>

\* mutant: the stale marker is left in place
IUnmark_NoRemoval(p) ==
  /\ proc[p].pc = "i_unmark"
  /\ Only(p, Goto(p, "i_platform"))
  /\ UNCHANGED <<Env, binDir, marker, written>>

\* line 129: if VERSION_FILE.exists()
IUnmark(p) ==
  /\ proc[p].pc = "i_unmark"
  /\ Only(p, Goto(p, IF marker.exists THEN "i_unmark_rm" ELSE "i_platform"))
  /\ UNCHANGED <<Env, binDir, marker, written>>

\* line 130: VERSION_FILE.unlink()
IUnmarkRm(p) ==
  /\ proc[p].pc = "i_unmark_rm"
  /\ IF marker.exists
     THEN /\ marker' = NoMarker
          /\ written' = <<>>
          /\ Only(p, Goto(p, "i_platform"))
     ELSE /\ UNCHANGED <<marker, written>>
          /\ Only(p, Raise(p, "remove_marker"))
  /\ UNCHANGED <<Env, binDir>>

\* lines 133-153
IPlatform(p) ==
  /\ proc[p].pc = "i_platform"
  /\ LET asset_name == ResolveAsset(platform[1], platform[2])
     IN IF asset_name = ""
        THEN Only(p, Raise(p, "resolve_platform"))
        ELSE Only(p, [proc[p] EXCEPT !.pc = "i_manifest", !.asset = asset_name])
  /\ UNCHANGED <<Env, binDir, marker, written>>

\* mutant: a missing file or entry is not detected
ExpectedChecksum_Unchecked(mf, asset_name) ==
  IF mf.exists /\ load_checksums(mf)[asset_name] # NoSum
  THEN load_checksums(mf)[asset_name] ELSE sha256hex(<<>>)

\* the outcome of lines 157-161 on a manifest file: the expected checksum,
\* or NoSum when the run must fail
ExpectedChecksum(mf, asset_name) ==
  IF ~mf.exists THEN NoSum ELSE load_checksums(mf)[asset_name]

\* lines 155-164
IManifest(p) ==
  /\ proc[p].pc = "i_manifest"
  /\ LET expected_checksum == ExpectedChecksum(manifest, proc[p].asset)
     IN IF expected_checksum = NoSum
        THEN Only(p, Raise(p, "load_manifest"))
        ELSE Only(p, [proc[p] EXCEPT !.pc = "i_release", !.expected = expected_checksum,
                                     !.version = pkgVersion])
  /\ UNCHANGED <<Env, binDir, marker, written>>

\* lines 167-171 and get_release: one request to the release API; it fails
\* (404, another status, transport), or returns a release whose asset list
\* has the asset or lacks it
IRelease(p) ==
  /\ proc[p].pc = "i_release"
  /\ \E outcome \in {"error", "lacks", "has"} :
       LET r == [proc[p] EXCEPT !.net = @ + 1]
       IN CASE outcome = "error" ->
                 Only(p, [r EXCEPT !.pc = "h_report", !.failStep = "fetch_release_metadata",
                                   !.exc = "Exception"])
            [] outcome = "lacks" ->
                 Only(p, [r EXCEPT !.pc = "h_report", !.failStep = "locate_asset",
                                   !.exc = "Exception"])
            [] OTHER -> Only(p, [r EXCEPT !.pc = "i_download"])
  /\ UNCHANGED <<Env, binDir, marker, written>>

\* the content-length values a response declares: -1 stands for no header
Declared == {-1, Ceiling, Ceiling + 1}

\* mutant: the declared length is not checked
TooLarge_Never(content_length) == FALSE

\* download_file, line 72
TooLarge(content_length) == content_length # -1 /\ content_length > Ceiling

\* line 178 and download_file, lines 67-73: the request, its status and the
\* content-length check
IDownload(p) ==
  /\ proc[p].pc = "i_download"
  /\ \/ Only(p, [proc[p] EXCEPT !.pc = "h_report", !.failStep = "download",
                                !.exc = "Exception", !.net = @ + 1, !.downloads = @ + 1])
     \/ \E content_length \in Declared, body \in Bodies(proc[p].version) :
          IF TooLarge(content_length)
          THEN Only(p, [proc[p] EXCEPT !.pc = "h_report", !.failStep = "download",
                                       !.exc = "Exception", !.net = @ + 1, !.downloads = @ + 1,
                                       !.oversize = content_length > Ceiling])
          ELSE Only(p, [proc[p] EXCEPT !.pc = "d_open", !.body = body,
                                       !.net = @ + 1, !.downloads = @ + 1,
                                       !.oversize = content_length > Ceiling])
  /\ UNCHANGED <<Env, binDir, marker, written>>

\* download_file, line 75: open(dest, "wb") creates or truncates the file
DOpen(p) ==
  /\ proc[p].pc = "d_open"
  /\ \/ Only(p, [Raise(p, "download") EXCEPT !.body = <<>>])
     \/ LET i == IF path["tmp"] = 0 THEN FreeIno ELSE path["tmp"]
        IN Commit(p, [proc[p] EXCEPT !.pc = "d_write", !.wfd = [ino |-> i, off |-> 0]],
                  [path EXCEPT !["tmp"] = i],
                  [inode EXCEPT ![i] = IF path["tmp"] = 0 THEN FreeInode
                                       ELSE [@ EXCEPT !.data = <<>>]])
  /\ UNCHANGED <<Env, binDir, marker, written>>

\* mutant: the downloaded file is promoted without verification
DWrite_SkipsVerify(p) ==
  /\ proc[p].pc = "d_write"
  /\ LET r == proc[p]
     IN IF r.body = <<>>
        THEN Commit(p, [r EXCEPT !.pc = "i_rename", !.wfd = NoFd], path, inode)
        ELSE \/ Commit(p, [Raise(p, "download") EXCEPT !.body = <<>>], path, inode)
             \/ Commit(p, [r EXCEPT !.body = Tail(@), !.wfd.off = @ + 1], path,
                       [inode EXCEPT ![r.wfd.ino].data = WriteAt(@, r.wfd.off, Head(r.body))])
  /\ UNCHANGED <<Env, binDir, marker, written>>

\* download_file, lines 76-77: one chunk is written at the descriptor's
\* offset, or the stream breaks, or it ends and the file is closed
DWrite(p) ==
  /\ proc[p].pc = "d_write"
  /\ LET r == proc[p]
     IN IF r.body = <<>>
        THEN Commit(p, [r EXCEPT !.pc = "v_open", !.wfd = NoFd], path, inode)
        ELSE \/ Commit(p, [Raise(p, "download") EXCEPT !.body = <<>>], path, inode)
             \/ Commit(p, [r EXCEPT !.body = Tail(@), !.wfd.off = @ + 1], path,
                       [inode EXCEPT ![r.wfd.ino].data = WriteAt(@, r.wfd.off, Head(r.body))])
  /\ UNCHANGED <<Env, binDir, marker, written>>

\* calculate_sha256, line 85: open(file_path, "rb")
VOpen(p) ==
  /\ proc[p].pc = "v_open"
  /\ IF path["tmp"] = 0
     THEN Only(p, [Raise(p, "verify") EXCEPT !.verifies = @ + 1])
     ELSE Only(p, [proc[p] EXCEPT !.pc = "v_read", !.verifies = @ + 1, !.hashed = <<>>,
                                  !.rfd = [ino |-> path["tmp"], off |-> 0]])
  /\ UNCHANGED <<Env, binDir, marker, written>>

\* verify_checksum, line 94
ChecksumMatches(actual_checksum, expected_checksum) == actual_checksum = expected_checksum

\* calculate_sha256, lines 86-88, and verify_checksum, lines 93-99: one block
\* is read and hashed; at end of file the digest is compared
VRead(p) ==
  /\ proc[p].pc = "v_read"
  /\ LET r == proc[p]
         data == inode[r.rfd.ino].data
     IN IF r.rfd.off < Len(data)
        THEN Only(p, [r EXCEPT !.hashed = Append(@, data[r.rfd.off + 1]), !.rfd.off = @ + 1])
        ELSE IF ChecksumMatches(sha256hex(r.hashed), r.expected)
             THEN Commit(p, [r EXCEPT !.pc = "i_rename", !.rfd = NoFd, !.verified = r.hashed,
                                      !.hashed = <<>>], path, inode)
             ELSE Commit(p, [Raise(p, "verify") EXCEPT !.hashed = <<>>], path, inode)
  /\ UNCHANGED <<Env, binDir, marker, written>>

\* line 186: tmp_path.replace(binary_path), an atomic rename
IRename(p) ==
  /\ proc[p].pc = "i_rename"
  /\ \/ Only(p, Raise(p, "promote"))
     \/ /\ path["tmp"] # 0
        /\ Commit(p, Goto(p, "i_chmod"), [bin |-> path["tmp"], tmp |-> 0], inode)
  /\ UNCHANGED <<Env, binDir, marker, written>>

\* line 187: os.chmod(binary_path, 0o755)
IChmod(p) ==
  /\ proc[p].pc = "i_chmod"
  /\ \/ Only(p, Raise(p, "chmod"))
     \/ /\ path["bin"] # 0
        /\ Commit(p, Goto(p, "m_open"), path, [inode EXCEPT ![path["bin"]].exec = TRUE])
  /\ UNCHANGED <<Env, binDir, marker, written>>

\* line 190, write_text: the file is opened for writing (created empty)
MOpen(p) ==
  /\ proc[p].pc = "m_open"
  /\ \/ /\ Only(p, Raise(p, "record_version"))
        /\ UNCHANGED <<marker, written>>
     \/ /\ Only(p, Goto(p, "m_write"))
        /\ marker' = [exists |-> TRUE, text |-> <<>>]
        /\ written' = proc[p].verified
  /\ UNCHANGED <<Env, binDir>>

\* line 190, write_text: the text is written and the file closed; a failed
\* write (disk full) leaves the file as it is
MWrite(p) ==
  /\ proc[p].pc = "m_write"
  /\ \/ /\ Only(p, Raise(p, "record_version"))
        /\ UNCHANGED marker
     \/ /\ Only(p, Goto(p, "i_done"))
        /\ marker' = [exists |-> TRUE, text |-> MarkerText(proc[p].version)]
  /\ UNCHANGED <<Env, binDir, written>>

\* line 192: install.main returns; a bare installer exits with status 0, the
\* launcher goes on to cli.main line 50
IDone(p) ==
  /\ proc[p].pc = "i_done"
  /\ IF proc[p].kind = "launcher"
     THEN Only(p, [proc[p] EXCEPT !.pc = "l_exec", !.installed = TRUE])
     ELSE Only(p, [proc[p] EXCEPT !.pc = "exited", !.exit = 0, !.installed = TRUE])
  /\ UNCHANGED <<Env, binDir, marker, written>>

\* ---------------------------------------- installer: the handler, 194-202
\* line 195
HReport(p) ==
  /\ proc[p].pc = "h_report"
  /\ Only(p, [proc[p] EXCEPT !.pc = "h_bin", !.diag = Append(@, "Installation failed")])
  /\ UNCHANGED <<Env, binDir, marker, written>>

\* line 198: if binary_path.exists()
HBin(p) ==
  /\ proc[p].pc = "h_bin"
  /\ Only(p, Goto(p, IF path["bin"] # 0 THEN "h_bin_rm" ELSE "h_tmp"))
  /\ UNCHANGED <<Env, binDir, marker, written>>

\* line 199: binary_path.unlink()
HBinRm(p) ==
  /\ proc[p].pc = "h_bin_rm"
  /\ IF path["bin"] # 0
     THEN Commit(p, Goto(p, "h_tmp"), [path EXCEPT !["bin"] = 0], inode)
     ELSE Only(p, Escape(proc[p]))
  /\ UNCHANGED <<Env, binDir, marker, written>>

\* line 200: if (BIN_DIR / ".shaper.tmp").exists()
HTmp(p) ==
  /\ proc[p].pc = "h_tmp"
  /\ Only(p, Goto(p, IF path["tmp"] # 0 THEN "h_tmp_rm" ELSE "h_exit"))
  /\ UNCHANGED <<Env, binDir, marker, written>>

\* line 201: (BIN_DIR / ".shaper.tmp").unlink()
HTmpRm(p) ==
  /\ proc[p].pc = "h_tmp_rm"
  /\ IF path["tmp"] # 0
     THEN Commit(p, Goto(p, "h_exit"), [path EXCEPT !["tmp"] = 0], inode)
     ELSE Only(p, Escape(proc[p]))
  /\ UNCHANGED <<Env, binDir, marker, written>>

\* line 202: sys.exit(1)
HExit(p) ==
  /\ proc[p].pc = "h_exit"
  /\ Only(p, HandlerExit(proc[p]))
  /\ UNCHANGED <<Env, binDir, marker, written>>

\* ------------------------------------------------------- launcher: cli.py
\* mutant: the marker is read without strip()
ReadBinaryVersion_NoStrip(m) == IF m.exists THEN Some(m.text) ELSE None

\* _read_binary_version, lines 18-21
ReadBinaryVersion(m) == IF m.exists THEN Some(strip(m.text)) ELSE None

\* mutant: the launcher always fetches
NeedsDownload_Always(binExists, current_version, desired_version) == TRUE

\* mutant: the launcher looks only at the binary, not at the marker
NeedsDownload_BinaryOnly(binExists, current_version, desired_version) == ~binExists

\* _ensure_binary, line 32
NeedsDownload(binExists, current_version, desired_version) ==
  (~binExists) \/ (current_version # Some(<<desired_version>>))

\* _ensure_binary, lines 29-30
LReadVersion(p) ==
  /\ proc[p].pc = "l_version"
  /\ Only(p, [proc[p] EXCEPT !.pc = "l_decide", !.desired = pkgVersion,
                             !.current = ReadBinaryVersion(marker)])
  /\ UNCHANGED <<Env, binDir, marker, written>>

\* _ensure_binary, lines 32-36
LDecide(p) ==
  /\ proc[p].pc = "l_decide"
  /\ LET r == proc[p]
     IN IF NeedsDownload(path["bin"] # 0, r.current, r.desired)
        THEN Only(p, [r EXCEPT !.pc = "i_mkdir", !.usable = FALSE, !.installs = @ + 1,
                               !.diag = Append(@, "Fetching Shaper binary...")])
        ELSE Only(p, [r EXCEPT !.pc = "l_exec", !.usable = TRUE])
  /\ UNCHANGED <<Env, binDir, marker, written>>

\* cli.main, line 51: the argument vector handed to execv
ExecArgv(args) == <<BINARY_PATH>> \o args

\* mutant: a failed execv is reported but the launcher ends with status 0
LExec_ExitsZero(p) ==
  /\ proc[p].pc = "l_exec"
  /\ \/ /\ path["bin"] # 0
        /\ inode[path["bin"]].exec
        /\ Only(p, [proc[p] EXCEPT !.pc = "execd", !.execArgv = ExecArgv(proc[p].args)])
     \/ Only(p, [proc[p] EXCEPT !.pc = "exited", !.exit = 0, !.exc = "Exception",
                                !.execFailed = TRUE,
                                !.diag = Append(@, "Error running shaper")])
  /\ UNCHANGED <<Env, binDir, marker, written>>

\* cli.main, lines 50-54: execv replaces the process image, or raises and the
\* launcher exits with status 1
LExec(p) ==
  /\ proc[p].pc = "l_exec"
  /\ \/ /\ path["bin"] # 0
        /\ inode[path["bin"]].exec
        /\ Only(p, [proc[p] EXCEPT !.pc = "execd", !.execArgv = ExecArgv(proc[p].args)])
     \/ Only(p, [proc[p] EXCEPT !.pc = "exited", !.exit = 1, !.exc = "Exception",
                                !.execFailed = TRUE,
                                !.diag = Append(@, "Error running shaper")])
  /\ UNCHANGED <<Env, binDir, marker, written>>

\* cli.main, lines 43-46
LExcept(p) ==
  /\ proc[p].pc = "l_except"
  /\ Only(p, [proc[p] EXCEPT !.pc = "exited", !.exit = 1,
                             !.diag = Append(@, "Failed to download binary")])
  /\ UNCHANGED <<Env, binDir, marker, written>>

\* ------------------------------------------------- uninstall: uninstall.py
\* line 13: if BINARY_PATH.exists()
UBin(p) ==
  /\ proc[p].pc = "u_bin"
  /\ Only(p, Goto(p, IF path["bin"] # 0 THEN "u_bin_rm" ELSE "u_dir"))
  /\ UNCHANGED <<Env, binDir, marker, written>>

\* line 14: BINARY_PATH.unlink()
UBinRm(p) ==
  /\ proc[p].pc = "u_bin_rm"
  /\ IF path["bin"] # 0
     THEN Commit(p, Goto(p, "u_dir"), [path EXCEPT !["bin"] = 0], inode)
     ELSE Only(p, [proc[p] EXCEPT !.pc = "exited", !.exit = 1, !.exc = "Exception",
                                  !.diag = Append(@, "Error during uninstall")])
  /\ UNCHANGED <<Env, binDir, marker, written>>

\* any(BIN_DIR.iterdir()): the directory holds the binary, the temporary
\* file, the marker or the manifest
DirHasEntries == path["bin"] # 0 \/ path["tmp"] # 0 \/ marker.exists \/ manifest.exists

\* mutant: the directory is removed with whatever it holds
UDir_RemovesTree(p) ==
  /\ proc[p].pc = "u_dir"
  /\ binDir' = FALSE
  /\ Only(p, [proc[p] EXCEPT !.pc = "exited", !.exit = 0])
  /\ UNCHANGED <<Env, marker, written>>

\* lines 15-16: the directory is removed when it exists and is empty; the
\* script then ends with status 0
UDir(p) ==
  /\ proc[p].pc = "u_dir"
  /\ binDir' = IF binDir /\ ~DirHasEntries THEN FALSE ELSE binDir
  /\ Only(p, [proc[p] EXCEPT !.pc = "exited", !.exit = 0])
  /\ UNCHANGED <<Env, marker, written>>

\* python uninstall.py, one process at a time
StartUninstall(p) ==
  /\ Quiet
  /\ proc' = [q \in Procs |-> IF q = p THEN Fresh("uninstall", <<>>, "u_bin") ELSE IdleProc]
  /\ UNCHANGED <<Env, binDir, path, inode, marker, written>>

\* ------------------------------------------------------------ environment
\* the process is killed (SIGKILL, power loss): no handler runs
Kill(p) ==
  /\ proc[p].pc \notin Terminal
  /\ Commit(p, [proc[p] EXCEPT !.pc = "killed", !.killedAt = proc[p].pc,
                               !.wfd = NoFd, !.rfd = NoFd], path, inode)
  /\ UNCHANGED <<Env, binDir, marker, written>>

\* pip replaces the wrapper package by another version: the package files
\* (SHA256SUMS among them) are replaced, bin/shaper and bin/VERSION stay
Upgrade ==
  /\ Quiet
  /\ \E v \in Versions \ {pkgVersion} :
       /\ pkgVersion' = v
       /\ manifest' \in ManifestFiles(v)
  /\ proc' = [q \in Procs |-> IdleProc]
  /\ UNCHANGED <<platform, binDir, path, inode, marker, written>>

\* python install.py (setup.py line 24, or by hand), one process at a time
StartInstaller(p) ==
  /\ Quiet
  /\ proc' = [q \in Procs |-> IF q = p THEN Fresh("installer", <<>>, "i_mkdir") ELSE IdleProc]
  /\ UNCHANGED <<Env, binDir, path, inode, marker, written>>

\* the shaper command, one process at a time
StartLauncher(p) ==
  /\ Quiet
  /\ \E args \in ArgLists :
       proc' = [q \in Procs |-> IF q = p THEN Fresh("launcher", args, "l_version") ELSE IdleProc]
  /\ UNCHANGED <<Env, binDir, path, inode, marker, written>>

\* an installer or a launcher started while another process may be running
StartConcurrent(p) ==
  /\ proc[p].pc = "idle"
  /\ \/ proc' = [proc EXCEPT ![p] = Fresh("installer", <<>>, "i_mkdir")]
     \/ proc' = [proc EXCEPT ![p] = Fresh("launcher", <<>>, "l_version")]
  /\ UNCHANGED <<Env, binDir, path, inode, marker, written>>

InstallStep(p) ==
  \/ IMkdir(p) \/ IUnmark(p) \/ IUnmarkRm(p) \/ IPlatform(p) \/ IManifest(p)
  \/ IRelease(p) \/ IDownload(p) \/ DOpen(p) \/ DWrite(p) \/ VOpen(p) \/ VRead(p)
  \/ IRename(p) \/ IChmod(p) \/ MOpen(p) \/ MWrite(p) \/ IDone(p)
  \/ HReport(p) \/ HBin(p) \/ HBinRm(p) \/ HTmp(p) \/ HTmpRm(p) \/ HExit(p)

LaunchStep(p) == LReadVersion(p) \/ LDecide(p) \/ LExec(p)

\* runs one at a time, each ending in success, in failure or killed; the
\* handler of cli.main line 43 is reached only when processes race
Next ==
  \/ \E p \in {Main} : StartInstaller(p) \/ StartLauncher(p) \/ InstallStep(p)
                         \/ LaunchStep(p) \/ Kill(p)
  \/ Upgrade

Spec == Init /\ [][Next]_vars

\* installer and uninstall runs, one at a time
NextUninstall ==
  \E p \in {Main} : StartInstaller(p) \/ InstallStep(p) \/ Kill(p)
                     \/ StartUninstall(p) \/ UBin(p) \/ UBinRm(p) \/ UDir(p)

SpecUninstall == Init /\ [][NextUninstall]_vars

\* installers and launchers racing on the same bin directory
NextConc == \E p \in Procs : StartConcurrent(p) \/ InstallStep(p) \/ LaunchStep(p) \/ LExcept(p)

\* a supported platform and a well-formed manifest, nothing installed yet
InitConc ==
  /\ pkgVersion = "1.4.0"
  /\ platform = <<"linux", "amd64">>
  /\ manifest = [exists |-> TRUE, lines |-> FullManifest(pkgVersion)]
  /\ binDir = TRUE
  /\ path = [n \in Names |-> 0]
  /\ inode = [i \in Inodes |-> FreeInode]
  /\ marker = NoMarker
  /\ written = <<>>
  /\ proc = [q \in Procs |-> IdleProc]

SpecConc == InitConc /\ [][NextConc]_vars

\* ---------------------------------------------- platform resolution alone
\* the values platform.system().lower() and platform.machine().lower() take
Systems == {"linux", "darwin", "freebsd", "windows"}
Machines == {"x86_64", "amd64", "arm64", "aarch64", "i386", "armv7l"}

\* any platform, a well-formed manifest, nothing installed yet
InitResolve ==
  /\ pkgVersion = "1.4.0"
  /\ platform \in Systems \X Machines
  /\ manifest = [exists |-> TRUE, lines |-> FullManifest(pkgVersion)]
  /\ binDir = TRUE
  /\ path = [n \in Names |-> 0]
  /\ inode = [i \in Inodes |-> FreeInode]
  /\ marker = NoMarker
  /\ written = <<>>
  /\ proc = [q \in Procs |-> IdleProc]

\* an installer run up to the end of platform resolution (line 153), and the
\* handler when the resolution fails
NextResolve ==
  \E p \in {Main} : StartInstaller(p) \/ IMkdir(p) \/ IUnmark(p) \/ IPlatform(p)
                     \/ HReport(p) \/ HBin(p) \/ HTmp(p) \/ HExit(p)

SpecResolve == InitResolve /\ [][NextResolve]_vars

\* ================================================================ claims
Ended(p) == proc[p].pc = "exited"
FailedAt(p, steps) == Ended(p) /\ proc[p].exit = 1 /\ proc[p].failStep \in steps

\* C1: when the downloaded file's digest differs from the manifest entry, the
\* final binary path is left as it was before the run (absent stays absent, an
\* installed binary stays in place untouched) and the temporary file is removed.
C1_MismatchKeepsBinary ==
  \A p \in Procs :
    FailedAt(p, {"verify"}) =>
      /\ FileAt("bin") = proc[p].snap.bin
      /\ path["tmp"] = 0

\* C2: a download that fails or is interrupted never replaces a working
\* binary: after the run the file at the final path is the file that was
\* there before the run.
C2_FailedDownloadKeepsBinary ==
  \A p \in Procs :
    \/ FailedAt(p, {"download"})
    \/ (proc[p].pc = "killed" /\ proc[p].killedAt \in {"i_download", "d_open", "d_write"})
    => FileAt("bin") = proc[p].snap.bin

\* C3: when installers race on the same bin directory, the final binary path
\* never holds a file whose content is partial or fails the checksum of the
\* manifest.
C3_RaceNeverTornBinary ==
  path["bin"] # 0 =>
    sha256hex(inode[path["bin"]].data) =
      ExpectedChecksum(manifest, ResolveAsset(platform[1], platform[2]))

\* C4: whenever the version marker exists, the final binary path holds the
\* file that passed verification in the run that created the marker, promoted
\* and made executable: the marker is written only after all three.
C4_MarkerImpliesVerifiedBinary ==
  marker.exists =>
    /\ path["bin"] # 0
    /\ inode[path["bin"]].data = written
    /\ inode[path["bin"]].exec

\* the steps of a run after the marker removal and before the marker write
Mid == {"i_platform", "i_manifest", "i_release", "i_download", "d_open", "d_write",
        "v_open", "v_read", "i_rename", "i_chmod", "m_open"}

\* C5: the marker is removed before any network call, so a run killed between
\* the marker removal and the marker write leaves no marker, and a launcher
\* that finds no marker runs the installer before it execs anything.
C5_MarkerRemovedFirst ==
  \A p \in Procs :
    /\ proc[p].pc \in Mid => ~marker.exists
    /\ proc[p].net > 0 => proc[p].pc \notin {"i_mkdir", "i_unmark", "i_unmark_rm"}
    /\ (proc[p].pc = "killed" /\ proc[p].killedAt \in Mid) => ~marker.exists
    /\ (proc[p].kind = "launcher" /\ proc[p].current = None
          /\ proc[p].pc \in {"l_exec", "execd"}) => proc[p].installs = 1

\* a run killed after it removed an existing marker and called the network
C5_Witness ==
  \E p \in Procs :
    /\ proc[p].pc = "killed" /\ proc[p].killedAt \in Mid
    /\ proc[p].snap.marker.exists
    /\ proc[p].net > 0

\* the launcher found, when it started, a binary at the final path and a
\* marker whose trimmed content is the expected version
UsableAtStart(p) ==
  /\ proc[p].snap.bin.exists
  /\ proc[p].snap.marker.exists
  /\ strip(proc[p].snap.marker.text) = <<pkgVersion>>

Decided(p) == proc[p].kind = "launcher" /\ proc[p].pc \notin {"l_version", "l_decide", "killed"}

\* C6: a launcher that finds the binary and a marker equal to the expected
\* version does not run the installer, makes no network call, changes no file
\* and execs the binary with its arguments forwarded unchanged.
C6_UsableGoesStraightToExec ==
  \A p \in Procs :
    (proc[p].kind = "launcher" /\ UsableAtStart(p)) =>
      /\ proc[p].installs = 0 /\ proc[p].net = 0
      /\ FileAt("bin") = proc[p].snap.bin
      /\ FileAt("tmp") = proc[p].snap.tmp
      /\ marker = proc[p].snap.marker
      /\ proc[p].pc \in {"l_version", "l_decide", "l_exec", "execd", "exited", "killed"}
      /\ proc[p].pc = "exited" => "Error running shaper" = proc[p].diag[Len(proc[p].diag)]
      /\ proc[p].pc = "execd" =>
           /\ Len(proc[p].execArgv) = Len(proc[p].args) + 1
           /\ proc[p].execArgv[1] = BINARY_PATH
           /\ \A i \in 1..Len(proc[p].args) : proc[p].execArgv[i + 1] = proc[p].args[i]

\* a launcher with an argument that went straight to exec
C6_Witness ==
  \E p \in Procs :
    /\ proc[p].kind = "launcher" /\ UsableAtStart(p)
    /\ proc[p].pc = "execd" /\ proc[p].args # <<>>

\* C7: a launcher that finds the marker missing or different, or the binary
\* missing, runs exactly one install cycle (at most one download and one
\* verification) and the cycle is complete before the binary is exec'ed.
C7_ExactlyOneInstallCycle ==
  \A p \in Procs :
    /\ proc[p].installs <= 1 /\ proc[p].downloads <= 1 /\ proc[p].verifies <= 1
    /\ (Decided(p) /\ ~UsableAtStart(p)) => proc[p].installs = 1
    /\ (proc[p].kind = "launcher" /\ ~UsableAtStart(p) /\ proc[p].pc \in {"l_exec", "execd"}) =>
         /\ proc[p].installed
         /\ proc[p].downloads = 1 /\ proc[p].verifies = 1

\* a launcher that found a binary with a marker of another version, installed and exec'ed
C7_Witness ==
  \E p \in Procs :
    /\ proc[p].kind = "launcher" /\ proc[p].pc = "execd"
    /\ proc[p].snap.bin.exists /\ proc[p].snap.marker.exists /\ ~UsableAtStart(p)
    /\ proc[p].installs = 1

\* C8: when the install cycle run by the launcher fails, the launcher ends
\* with exit status 1 and a diagnostic, never reaches the exec and does not
\* run the installer again.
C8_InstallFailureIsFatal ==
  \A p \in Procs :
    (proc[p].kind = "launcher" /\ proc[p].failStep # "") =>
      /\ proc[p].pc \in {"h_report", "h_bin", "h_bin_rm", "h_tmp", "h_tmp_rm", "h_exit",
                         "exited", "killed"}
      /\ proc[p].installs = 1 /\ proc[p].downloads <= 1
      /\ proc[p].execArgv = <<>>
      /\ proc[p].pc = "exited" => (proc[p].exit = 1 /\ proc[p].diag # <<>>
                                   /\ \E i \in 1..Len(proc[p].diag) :
                                        proc[p].diag[i] = "Installation failed")

\* a launcher whose install failed and that exited
C8_Witness ==
  \E p \in Procs :
    /\ proc[p].kind = "launcher" /\ proc[p].failStep = "verify"
    /\ proc[p].pc = "exited" /\ proc[p].exit = 1

\* C9 as stated: after a successful installer run the marker's content
\* exactly equals the requested version string and the binary is executable.
C9_MarkerEqualsVersion ==
  \A p \in Procs :
    proc[p].installed =>
      /\ marker.exists /\ marker.text = <<proc[p].version>>
      /\ path["bin"] # 0 /\ inode[path["bin"]].exec

\* C9, amended: after a successful installer run the marker's content is the
\* requested version string followed by one newline, so that its trimmed
\* content equals the version, and the binary at the final path is executable.
C9_MarkerIsVersionLine ==
  \A p \in Procs :
    proc[p].installed =>
      /\ marker.exists /\ marker.text = <<proc[p].version, NL>>
      /\ strip(marker.text) = <<proc[p].version>>
      /\ proc[p].version = pkgVersion
      /\ path["bin"] # 0 /\ inode[path["bin"]].exec

\* a bare installer that exited with status 0
C9_Witness ==
  \E p \in Procs :
    proc[p].installed /\ proc[p].kind = "installer" /\ proc[p].pc = "exited" /\ proc[p].exit = 0

\* the manifest has no line naming the asset (or the file is missing)
NoEntry(mf, asset_name) ==
  ~mf.exists \/ ~\E i \in 1..Len(mf.lines) : Len(mf.lines[i]) >= 2 /\ mf.lines[i][2] = asset_name

\* C10: when the manifest has no entry for the resolved asset name, or is
\* missing, the install fails before any network call: neither the release
\* metadata nor the download is requested.
C10_NoEntryNoNetwork ==
  \A p \in Procs :
    LET asset_name == ResolveAsset(platform[1], platform[2])
    IN (asset_name # "" /\ NoEntry(manifest, asset_name)) =>
         /\ proc[p].net = 0 /\ proc[p].downloads = 0
         /\ proc[p].pc \notin {"i_release", "i_download", "d_open", "d_write", "v_open",
                                "v_read", "i_rename", "i_chmod", "m_open", "m_write", "i_done"}
         /\ (proc[p].installs = 1 /\ proc[p].pc \in {"exited", "execd", "l_exec"}) =>
              (proc[p].pc = "exited" /\ proc[p].exit = 1 /\ proc[p].failStep = "load_manifest")

\* an install that failed on a manifest file without the entry
C10_Witness ==
  \E p \in Procs :
    /\ manifest.exists /\ NoEntry(manifest, ResolveAsset(platform[1], platform[2]))
    /\ proc[p].pc = "exited" /\ proc[p].failStep = "load_manifest" /\ proc[p].net = 0

\* the asset name the documentation gives for a pair: the machine synonyms
\* are normalised, then the pair is looked up in the table of four platforms;
\* "" when the pair is not supported
DocumentedAsset(system, machine) ==
  LET m == IF machine = "amd64" THEN "x86_64"
           ELSE IF machine \in {"arm64", "aarch64"}
                THEN (IF system = "linux" THEN "aarch64" ELSE "arm64")
                ELSE machine
  IN CASE <<system, m>> = <<"linux", "x86_64">>  -> "shaper-linux-amd64"
       [] <<system, m>> = <<"linux", "aarch64">> -> "shaper-linux-arm64"
       [] <<system, m>> = <<"darwin", "x86_64">> -> "shaper-darwin-amd64"
       [] <<system, m>> = <<"darwin", "arm64">>  -> "shaper-darwin-arm64"
       [] OTHER -> ""

PastPlatform(p) == proc[p].pc \notin {"idle", "i_mkdir", "i_unmark", "i_unmark_rm", "i_platform",
                                      "l_version", "l_decide", "killed"}

\* C11: for every (os, machine) pair, platform resolution returns the asset
\* name of the documented table for a supported pair or synonym, and fails
\* with the unsupported-platform error for every other pair.
C11_ResolutionMatchesTable ==
  \A p \in Procs :
    LET doc == DocumentedAsset(platform[1], platform[2])
    IN /\ proc[p].pc = "i_manifest" => (doc # "" /\ proc[p].asset = doc)
       /\ proc[p].failStep = "resolve_platform" => (doc = "" /\ proc[p].asset = "")
       /\ (PastPlatform(p) /\ proc[p].installs = 1) =>
            (IF doc = "" THEN proc[p].failStep = "resolve_platform"
                         ELSE proc[p].failStep = "" /\ proc[p].asset = doc)

\* a synonym resolved: darwin/aarch64 gives the darwin arm64 asset
C11_Witness ==
  \E p \in Procs :
    /\ platform = <<"darwin", "aarch64">>
    /\ proc[p].pc = "i_manifest" /\ proc[p].asset = "shaper-darwin-arm64"

\* C12: an installer run on an unmapped platform fails with the
\* unsupported-platform error and makes no network call: the manifest is not
\* loaded, no release metadata is requested and nothing is downloaded.
C12_UnmappedPlatformNoNetwork ==
  \A p \in Procs :
    DocumentedAsset(platform[1], platform[2]) = "" =>
      /\ proc[p].net = 0 /\ proc[p].downloads = 0 /\ proc[p].verifies = 0
      /\ proc[p].expected = NoSum
      /\ proc[p].pc \notin {"i_manifest", "i_release", "i_download", "d_open", "d_write",
                             "v_open", "v_read", "i_rename", "i_chmod", "m_open", "m_write",
                             "i_done", "l_exec", "execd"}
      /\ (proc[p].installs = 1 /\ proc[p].pc = "exited") =>
           (proc[p].exit = 1 /\ proc[p].failStep = "resolve_platform"
            /\ proc[p].diag[Len(proc[p].diag)] = "Installation failed")

\* a run on freebsd/x86_64 that failed at platform resolution
C12_Witness ==
  \E p \in Procs :
    /\ platform = <<"freebsd", "x86_64">>
    /\ proc[p].pc = "exited" /\ proc[p].exit = 1 /\ proc[p].failStep = "resolve_platform"
    /\ proc[p].net = 0

\* C13: verification compares the digest of the temporary file with the
\* manifest digest as values, whatever the case of the hex digits: a run fails
\* at verification only when the two digests differ as values, and a file is
\* accepted only when they agree.
C13_DigestsComparedAsValues ==
  \A p \in Procs :
    /\ (proc[p].pc = "h_report" /\ proc[p].failStep = "verify" /\ path["tmp"] # 0) =>
         sha256hex(inode[path["tmp"]].data).of # proc[p].expected.of
    /\ proc[p].pc = "i_rename" => sha256hex(proc[p].verified).of = proc[p].expected.of

\* C14: the uninstall routine deletes the binary if it exists and removes
\* the bin directory if and only if the directory is empty after that; a
\* missing binary and a non-empty directory are not errors, and no file other
\* than the binary is deleted.
C14_UninstallRemovesOnlyBinary ==
  \A p \in Procs :
    proc[p].kind = "uninstall" =>
      /\ FileAt("tmp") = proc[p].snap.tmp
      /\ marker = proc[p].snap.marker
      /\ proc[p].pc \in {"u_bin", "u_bin_rm"} => binDir = proc[p].snap.dir
      /\ proc[p].pc \in {"u_dir", "exited"} => path["bin"] = 0
      /\ proc[p].pc = "exited" =>
           /\ proc[p].exit = 0 /\ proc[p].diag = <<>>
           /\ ~binDir <=> (~proc[p].snap.dir
                            \/ (path["tmp"] = 0 /\ ~marker.exists /\ ~manifest.exists))

\* an uninstall that deleted the binary and left a directory holding the marker
C14_Witness ==
  \E p \in Procs :
    /\ proc[p].kind = "uninstall" /\ proc[p].pc = "exited"
    /\ proc[p].snap.bin.exists /\ marker.exists /\ binDir

LastDiag(p) == IF proc[p].diag = <<>> THEN "" ELSE proc[p].diag[Len(proc[p].diag)]

\* C15 as stated: when execv fails the launcher falls back to running the
\* binary as a subprocess and exits with the binary's exit code; the invocation
\* does not end with the launcher's own error.
C15_ExecFailureFallsBack ==
  \A p \in Procs :
    proc[p].execFailed =>
      ~(proc[p].pc = "exited" /\ proc[p].exit = 1 /\ LastDiag(p) = "Error running shaper")

\* C15, amended: when execv fails the launcher reports "Error running shaper"
\* and exits with status 1; it starts no subprocess, and every launcher
\* invocation that does not exec ends with status 1.
C15_ExecFailureIsFatal ==
  \A p \in Procs :
    /\ proc[p].execFailed =>
         /\ proc[p].kind = "launcher" /\ proc[p].pc = "exited" /\ proc[p].exit = 1
         /\ LastDiag(p) = "Error running shaper"
         /\ proc[p].execArgv = <<>>
    /\ (proc[p].kind = "launcher" /\ proc[p].pc = "exited") => proc[p].exit = 1

\* a launcher with a usable binary whose execv failed
C15_Witness ==
  \E p \in Procs : proc[p].execFailed /\ proc[p].usable /\ proc[p].pc = "exited"

HandlerPcs == {"h_report", "h_bin", "h_bin_rm", "h_tmp", "h_tmp_rm", "h_exit"}

StepRank(pc) ==
  CASE pc = "i_platform" -> 1
    [] pc = "i_manifest" -> 2
    [] pc = "i_release" -> 3
    [] pc \in {"i_download", "d_open", "d_write"} -> 4
    [] pc \in {"v_open", "v_read"} -> 5
    [] pc = "i_rename" -> 6
    [] pc = "i_chmod" -> 7
    [] pc \in {"m_open", "m_write"} -> 8
    [] pc = "i_done" -> 9
    [] OTHER -> 0

\* the failure names of a step
StepFailures(rank) ==
  CASE rank = 1 -> {"resolve_platform"}
    [] rank = 2 -> {"load_manifest"}
    [] rank = 3 -> {"fetch_release_metadata", "locate_asset"}
    [] rank = 4 -> {"download"}
    [] rank = 5 -> {"verify"}
    [] rank = 6 -> {"promote"}
    [] rank = 7 -> {"chmod"}
    [] rank = 8 -> {"record_version"}
    [] OTHER -> {"remove_marker"}

StepOrder(p) ==
  LET a == proc[p].prev
      b == proc[p].pc
  IN /\ (StepRank(b) # 0 /\ StepRank(a) # StepRank(b)) =>
          (StepRank(a) = StepRank(b) - 1 /\ proc[p].failStep = ""
           /\ (StepRank(b) = 1 => a \in {"i_unmark", "i_unmark_rm"}))
     /\ (StepRank(a) # 0 /\ a # b) =>
          \/ StepRank(b) \in {StepRank(a), StepRank(a) + 1}
          \/ b \in {"h_report", "killed"}
          \/ (a = "i_done" /\ b \in {"exited", "l_exec"})
     /\ (b = "h_report") =>
          (StepRank(a) # 9 /\ proc[p].failStep \in StepFailures(StepRank(a)))
     /\ a \in HandlerPcs =>
          (b \in HandlerPcs \cup {"exited", "killed", "l_except"} /\ b # "h_report")
     /\ proc[p].failStep # "" =>
          (b \in HandlerPcs \cup {"exited", "killed", "l_except"} /\ ~proc[p].installed)

\* C17: a run performs its steps in the order resolve_platform, load_manifest,
\* fetch_release_metadata, locate_asset, download, verify, promote, chmod,
\* record_version; a step starts only when every earlier step has succeeded,
\* and a failure of any step leads to the failed state, after which no step
\* runs.  Stated on each process's last move, from prev to pc.
C17_StepsInOrder == \A p \in Procs : StepOrder(p)

\* a run that went through every step: verified, promoted, marker written
C17_Witness ==
  \E p \in Procs :
    /\ proc[p].pc = "i_done" /\ proc[p].verifies = 1 /\ proc[p].failStep = ""
    /\ marker.text = MarkerText(proc[p].version)

\* C18: after an installer run that ended in the failed state, at whichever
\* step it failed, the version marker, the temporary file and the final binary
\* are all absent, and the process exits with status 1.
C18_FailedRunLeavesNothing ==
  \A p \in Procs :
    (Ended(p) /\ proc[p].failStep # "") =>
      /\ proc[p].exit = 1
      /\ ~marker.exists
      /\ path["tmp"] = 0
      /\ path["bin"] = 0

\* the launcher started on the files a successful install of version v left
StartedAfterInstallOf(p, v) ==
  /\ proc[p].kind = "launcher" /\ proc[p].pc # "killed"
  /\ proc[p].snap.marker.exists /\ proc[p].snap.marker.text = MarkerText(v)

\* C19: after a successful install of version v, a launcher that expects v
\* reads the marker back as v (the newline stripped), finds the binary usable
\* and does not run the installer; a launcher that expects another version
\* runs the installer.
C19_InstallThenLaunchStable ==
  \A p \in Procs : \A v \in Versions :
    StartedAfterInstallOf(p, v) =>
      /\ proc[p].snap.bin.exists /\ proc[p].snap.bin.exec
      /\ proc[p].pc # "l_version" => proc[p].current = Some(<<v>>)
      /\ (Decided(p) /\ v = pkgVersion) => (proc[p].usable /\ proc[p].installs = 0)
      /\ (Decided(p) /\ v # pkgVersion) => (~proc[p].usable /\ proc[p].installs = 1)

\* a launcher that read the installed version back and went to exec without installing
C19_Witness ==
  \E p \in Procs :
    /\ StartedAfterInstallOf(p, pkgVersion)
    /\ proc[p].pc = "l_exec" /\ proc[p].installs = 0
    /\ proc[p].current = Some(<<pkgVersion>>)

====
